---- MODULE Spec2Model ----
(***************************************************************************)
(* MetaMultiSigWallet: the ledger contract (nonce, owners, threshold,      *)
(* executeTransaction), the pool server that collects signatures, and the  *)
(* client code that proposes, signs and executes pending transactions.     *)
(***************************************************************************)
EXTENDS Integers, Sequences, FiniteSets, TLC

VARIABLES
    nonce,               \* contract: nonce()
    isOwner,             \* contract: the set of addresses a with isOwner(a)
    signaturesRequired,  \* contract: signaturesRequired()
    events,              \* contract: ExecuteTransaction events, oldest first
    balance,             \* chain: the ether held by the wallet and by each account
    multisigData,        \* pool server: key -> (hash -> proposal)
    last,                \* the last operation and its outcome
    call,                \* the arguments and pre-state of a probed executeTransaction
    codec,               \* two fingerprint computations and their inputs
    http,                \* the last request to the pool server and its response
    net                  \* pool server: the requests sent to it and its answers, in order

vars == <<nonce, isOwner, signaturesRequired, events, balance, multisigData, last, call,
          codec, http, net>>
ledgerVars == <<nonce, isOwner, signaturesRequired, events, balance>>

----------------------------------------------------------------------------
(* Bounds of the model *)

MaxNonce == 2        \* executions explored per behaviour
MaxSigs == 3         \* longest candidate list of a probed call
MaxDirectSigs == 2   \* longest candidate list of a direct call in the system
MaxProposals == 2    \* proposals held by the pool server

----------------------------------------------------------------------------
(* Identities.  Addresses are numbers compared as BigInt(address).  The    *)
(* four accounts of the test fixture hold keys; the order is the numeric   *)
(* order of the default hardhat accounts (owner3 < owner2 < nonOwner <     *)
(* owner1).  Even numbers are accounts, odd numbers are the addresses that *)
(* ecrecover yields for a signature made over another message.             *)

owner1 == 160
owner2 == 80
owner3 == 40
nonOwner == 120
Wallet == 200
chainId == 31337

\* another deployment of the wallet, on another chain
OtherWallet == 240
OtherChain == 1

Keyed == {owner1, owner2, owner3, nonOwner}
NoAddress == 0

----------------------------------------------------------------------------
(* Actions (to, value, data) *)

NoData == [fn |-> "0x", who |-> NoAddress, req |-> 0]
AddSigner(a, n) == [fn |-> "addSigner", who |-> a, req |-> n]
RemoveSigner(a, n) == [fn |-> "removeSigner", who |-> a, req |-> n]
UpdateSignaturesRequired(n) == [fn |-> "updateSignaturesRequired", who |-> NoAddress, req |-> n]

Tx(to, value, data) == [to |-> to, value |-> value, data |-> data]

TxSeq ==
    << Tx(nonOwner, 1, NoData),
       Tx(owner2, 2, NoData),
       Tx(Wallet, 0, AddSigner(nonOwner, 2)),
       Tx(Wallet, 0, RemoveSigner(owner3, 2)),
       Tx(Wallet, 0, RemoveSigner(owner2, 3)),
       Tx(Wallet, 0, UpdateSignaturesRequired(1)),
       Tx(Wallet, 0, UpdateSignaturesRequired(0)) >>

Txs == {TxSeq[i] : i \in 1..Len(TxSeq)}

TxIndex(tx) == CHOOSE i \in 1..Len(TxSeq) : TxSeq[i] = tx

----------------------------------------------------------------------------
(* Fingerprint codec and signatures *)

\* mutant: the fingerprint leaves the sequence out
getTransactionHashNoNonce(_nonce, to, value, data) ==
    [address |-> Wallet, chainId |-> chainId, nonce |-> 0,
     to |-> to, value |-> value, data |-> data]

\* mutant: the chain id is left out of the fingerprint
hashInAnyChain(wallet, chain, _nonce, to, value, data) ==
    [address |-> wallet, chainId |-> chainId, nonce |-> _nonce,
     to |-> to, value |-> value, data |-> data]

\* getTransactionHash of the wallet deployed at `wallet` with chain id `chain`:
\* a digest of the six fields, taken to be free of collisions
hashIn(wallet, chain, _nonce, to, value, data) ==
    [address |-> wallet, chainId |-> chain, nonce |-> _nonce,
     to |-> to, value |-> value, data |-> data]

getTransactionHash(_nonce, to, value, data) ==
    hashIn(Wallet, chainId, _nonce, to, value, data)

HashOf(n, tx) == getTransactionHash(n, tx.to, tx.value, tx.data)

\* a signature is the signing key's address, the message signed and the
\* encoding: "low" canonical, "alt" a second canonical signature of the same
\* key over the same message, "high" the high-s variant of "low", "short" a
\* wrong length
signTransactionHash(signer, hash) == [signer |-> signer, msg |-> hash, form |-> "low"]

MsgCode(h) == h.nonce * Len(TxSeq) + TxIndex(Tx(h.to, h.value, h.data)) - 1
MsgCodes == (MaxNonce + 2) * Len(TxSeq)
KeyIndex(a) == a \div 40

FormCode(form) == IF form = "alt" THEN 1 ELSE 0

\* ecrecover of a well-formed signature over another message: an address
\* nobody holds the key of, different for different signatures
Garbage(sig, h) ==
    2 * (((KeyIndex(sig.signer) * MsgCodes + MsgCode(sig.msg)) * 7 + MsgCode(h) * 3
            + FormCode(sig.form) * 5) % 211) + 1

Canonical == {"low", "alt"}

\* mutant: recovery does not bind the signature to the message
recoverAnyMessage(h, sig) ==
    IF sig.form \notin Canonical THEN NoAddress ELSE sig.signer

\* mutant: the high-s variant of a signature is accepted
recoverHighS(h, sig) ==
    IF sig.form \notin Canonical \cup {"high"} THEN NoAddress
    ELSE IF sig.msg = h THEN sig.signer
    ELSE Garbage(sig, h)

recover(h, sig) ==
    IF sig.form \notin Canonical THEN NoAddress
    ELSE IF sig.msg = h THEN sig.signer
    ELSE Garbage(sig, h)

Recovered(h, sigs) == [i \in 1..Len(sigs) |-> recover(h, sigs[i])]

----------------------------------------------------------------------------
(* Quorum verifier: the signature loop of executeTransaction *)

ErrOnlyOwners == "executeTransaction: only owners can execute"
ErrDuplicate == "executeTransaction: duplicate or unordered signatures"
ErrNotEnough == "executeTransaction: not enough valid signatures"
ErrRecovery == "SignatureRecoveryFailed"
ErrThreshold == "InvalidThreshold"
ErrTxFailed == "executeTransaction: tx failed"
ErrNotSelf == "Not Self"
Admit == "admit"

\* mutant: equal neighbours pass the order check
NonDescending(r) == \A i \in 1..Len(r) - 1 : r[i] <= r[i + 1]

\* every signature but the first recovers an address above its predecessor's
StrictlyAscending(r) == \A i \in 1..Len(r) - 1 : r[i] < r[i + 1]

\* mutant: every recovered address counts
ValidSignaturesAll(r, members) == Len(r)

\* validSignatures: a recovered address counts when it is an owner, and is
\* passed over when it is not
ValidSignatures(r, members) == Cardinality({i \in 1..Len(r) : r[i] \in members})

\* mutants: the comparison with the threshold is off by one
EnoughValidOneShort(valid, required) == valid + 1 >= required
EnoughValidStrict(valid, required) == valid > required

EnoughValid(valid, required) == valid >= required

QuorumVerifier(h, members, threshold, sigs) ==
    LET r == Recovered(h, sigs) IN
    IF \E i \in 1..Len(r) : r[i] = NoAddress THEN ErrRecovery
    ELSE IF ~StrictlyAscending(r) THEN ErrDuplicate
    ELSE IF ~EnoughValid(ValidSignatures(r, members), threshold) THEN ErrNotEnough
    ELSE Admit

----------------------------------------------------------------------------
(* Membership and threshold state *)

MembersAfter(members, tx) ==
    IF tx.to # Wallet THEN members
    ELSE IF tx.data.fn = "addSigner" THEN members \cup {tx.data.who}
    ELSE IF tx.data.fn = "removeSigner" THEN members \ {tx.data.who}
    ELSE members

ThresholdAfter(threshold, tx) ==
    IF tx.to = Wallet /\ tx.data.fn \in {"addSigner", "removeSigner", "updateSignaturesRequired"}
    THEN tx.data.req
    ELSE threshold

\* mutants: one side of the bound on the threshold is not checked
ValidMembershipNoLower(members, threshold) ==
    /\ members # {}
    /\ threshold <= Cardinality(members)
ValidMembershipNoUpper(members, threshold) ==
    /\ members # {}
    /\ 1 <= threshold

ValidMembership(members, threshold) ==
    /\ members # {}
    /\ 1 <= threshold
    /\ threshold <= Cardinality(members)

----------------------------------------------------------------------------
(* Ether.  Amounts are in units of half an ether; the balance of an account *)
(* is counted from the moment the fixture has funded the wallet, and the    *)
(* gas a sender pays for a call is not part of the call's effect.           *)

Funding == 2

Holders == Keyed \cup {Wallet}

FundedBalances == [a \in Holders |-> IF a = Wallet THEN Funding ELSE 0]

\* mutant: the target is credited and the wallet is not debited
BalancesAfterNoDebit(bal, tx) == [bal EXCEPT ![tx.to] = @ + tx.value]

\* to.call{value: value}(data): the wallet pays value to the target
BalancesAfter(bal, tx) == [bal EXCEPT ![Wallet] = @ - tx.value, ![tx.to] = @ + tx.value]

CanPay(bal, tx) == tx.value <= bal[Wallet]

----------------------------------------------------------------------------
(* The ledger's execute operation *)

\* mutant: any account may execute
CallerAny(sender, members) == TRUE

CallerAllowed(sender, members) == sender \in members

\* mutant: a successful execution leaves the nonce as it is
NextNonceStays(n) == n

\* mutant: the counter skips a value
NextNonceSkip(n) == n + 2

NextNonce(n) == n + 1

\* the outcome of executeTransaction(to, value, data, signatures) sent by sender
ExecuteOutcome(sender, tx, sigs) ==
    LET h == HashOf(nonce, tx)
        v == QuorumVerifier(h, isOwner, signaturesRequired, sigs)
    IN  IF ~CallerAllowed(sender, isOwner) THEN ErrOnlyOwners
        ELSE IF v # Admit THEN v
        ELSE IF ~CanPay(balance, tx) THEN ErrTxFailed
        ELSE IF ~ValidMembership(MembersAfter(isOwner, tx), ThresholdAfter(signaturesRequired, tx))
             THEN ErrThreshold
        ELSE "ok"

NoHash == getTransactionHash(0 - 1, NoAddress, 0, NoData)

Outcome(op, result) ==
    [op |-> op, result |-> result, hash |-> NoHash,
     signatures |-> <<>>, owners |-> {}, required |-> 0]

\* mutant: the counter, increased before the checks, is not rolled back
RevertKeepsNonce(result, tx) ==
    /\ nonce' = nonce + 1
    /\ UNCHANGED <<isOwner, signaturesRequired, events, balance>>
    /\ last' = [Outcome("execute", result) EXCEPT !.hash = HashOf(nonce, tx)]

\* a reverted call: no state of the contract changes
Revert(result, tx) ==
    /\ UNCHANGED ledgerVars
    /\ last' = [Outcome("execute", result) EXCEPT !.hash = HashOf(nonce, tx)]

\* the counter the ledger holds after the call
NonceAfter(sender, tx, sigs) ==
    IF ExecuteOutcome(sender, tx, sigs) = "ok" THEN NextNonce(nonce) ELSE nonce

executeTransaction(sender, tx, sigs) ==
    LET result == ExecuteOutcome(sender, tx, sigs) IN
    IF result = "ok"
    THEN /\ nonce' = NonceAfter(sender, tx, sigs)
         /\ isOwner' = MembersAfter(isOwner, tx)
         /\ signaturesRequired' = ThresholdAfter(signaturesRequired, tx)
         /\ events' = Append(events, HashOf(nonce, tx))
         /\ balance' = BalancesAfter(balance, tx)
         /\ last' = [op |-> "execute", result |-> "ok",
                     hash |-> HashOf(nonce, tx), signatures |-> sigs,
                     owners |-> isOwner, required |-> signaturesRequired]
    ELSE Revert(result, tx)

----------------------------------------------------------------------------
(* addSigner, removeSigner and updateSignaturesRequired called directly *)

\* mutant: the functions are open to every caller
onlySelfAnyone(sender) == TRUE

\* the functions are for the wallet's own call out of executeTransaction
onlySelf(sender) == sender = Wallet

GovernCalls == {TxSeq[i].data : i \in {i \in 1..Len(TxSeq) : TxSeq[i].to = Wallet}}

governDirectly(sender, data) ==
    LET tx == Tx(Wallet, 0, data)
        members == MembersAfter(isOwner, tx)
        threshold == ThresholdAfter(signaturesRequired, tx)
    IN  IF ~onlySelf(sender)
        THEN /\ UNCHANGED ledgerVars
             /\ last' = Outcome(data.fn, ErrNotSelf)
        ELSE IF ~ValidMembership(members, threshold)
        THEN /\ UNCHANGED ledgerVars
             /\ last' = Outcome(data.fn, ErrThreshold)
        ELSE /\ isOwner' = members
             /\ signaturesRequired' = threshold
             /\ UNCHANGED <<nonce, events, balance>>
             /\ last' = Outcome(data.fn, "ok")

----------------------------------------------------------------------------
(* Pool server: POST /propose, POST /sign, GET /proposals *)

Missing == 0 - 1                       \* undefined, for a numeric field
UndefinedData == [fn |-> "undefined", who |-> NoAddress, req |-> 0]

\* !x of JavaScript: undefined, the empty string and the number 0 are falsy
Falsy(x) == x = Missing \/ x = 0
FalsyHash(h) == h = NoHash

\* address strings: a + 1000 is the mixed-case spelling of the lower-case a
toLowerCase(a) == a % 1000
BigInt(a) == a % 1000

EmptyMap == [x \in {} |-> 0]
Put(map, k, v) == [x \in (DOMAIN map) \cup {k} |-> IF x = k THEN v ELSE map[x]]

\* strings with underscores: the number p * Joint + q stands for the string
\* "p_q"; a well-formed address or chain id has no underscore and is below Joint
Joint == 1000000
Joined(p, q) == p * Joint + q
Parts(x) == IF x >= Joint THEN <<x \div Joint, x % Joint>> ELSE <<x>>

\* `${address}_${chainId}`: the string is given by its underscore-free parts
\* mutant: the key leaves the chain id out
KeyAddressOnly(address, chain) == Parts(address)

Key(address, chain) == Parts(address) \o Parts(chain)

\* the JSON body of a request: a field the body leaves out is undefined
NoRequest ==
    [address |-> Missing, chainId |-> Missing, hash |-> NoHash, to |-> Missing,
     value |-> Missing, data |-> UndefinedData, nonce |-> Missing, proposer |-> Missing,
     signer |-> Missing, signature |-> [signer |-> NoAddress, msg |-> NoHash, form |-> "none"]]

NoProposal ==
    [hash |-> NoHash, to |-> Missing, value |-> Missing, data |-> UndefinedData,
     nonce |-> Missing, proposer |-> Missing, signatures |-> <<>>]

\* a response: its status, the proposal its body carries (NoProposal for an
\* error message alone) and the store the handler leaves
Response(status, store, body) == [status |-> status, store |-> store, body |-> body]

Exchange(op, req, status, body) ==
    [op |-> op, req |-> req, status |-> status, body |-> body, listing |-> EmptyMap]

\* the exchange of GET /proposals: the body is the map of the key's proposals
Listing(req, map) ==
    [op |-> "list", req |-> req, status |-> 200, body |-> NoProposal, listing |-> map]

NoExchange == Exchange("none", NoRequest, 0, NoProposal)

NoNet == [sent |-> <<>>, answers |-> <<>>]

\* a value of a JSON body is a decimal string or a number: v stands for the
\* string of the digits of v, AsNumber(v) for the number v
Numeral == 5000
AsNumber(v) == v + Numeral

\* String(value): the string as it is, the number as its digits, undefined
\* (kept out by the validation) aside
String(value) == IF value >= Numeral THEN value - Numeral ELSE value

ProposalOf(req) ==
    [hash |-> req.hash, to |-> req.to, value |-> String(req.value), data |-> req.data,
     nonce |-> req.nonce, proposer |-> req.proposer, signatures |-> <<>>]

\* mutant: the validation leaves the nonce out
ProposeFieldsMissingNoNonce(req) ==
    \/ Falsy(req.address) \/ Falsy(req.chainId) \/ FalsyHash(req.hash) \/ Falsy(req.to)
    \/ req.value = Missing \/ req.data = UndefinedData

ProposeFieldsMissing(req) ==
    \/ Falsy(req.address) \/ Falsy(req.chainId) \/ FalsyHash(req.hash) \/ Falsy(req.to)
    \/ req.value = Missing \/ req.data = UndefinedData \/ req.nonce = Missing

\* mutant: a new proposal is answered 201 and not stored
PostProposeNoStore(store, req) ==
    LET key == Key(req.address, req.chainId)
        keyed == IF key \in DOMAIN store THEN store ELSE Put(store, key, EmptyMap)
    IN  IF ProposeFieldsMissing(req)
        THEN Response(400, store, NoProposal)
        ELSE IF req.hash \in DOMAIN keyed[key]
        THEN Response(409, keyed, keyed[key][req.hash])
        ELSE Response(201, keyed, ProposalOf(req))

\* mutant: a proposal for a hash already stored replaces the stored one
PostProposeOverwrite(store, req) ==
    LET key == Key(req.address, req.chainId)
        keyed == IF key \in DOMAIN store THEN store ELSE Put(store, key, EmptyMap)
    IN  IF ProposeFieldsMissing(req)
        THEN Response(400, store, NoProposal)
        ELSE Response(201, Put(keyed, key, Put(keyed[key], req.hash, ProposalOf(req))),
                      ProposalOf(req))

PostPropose(store, req) ==
    LET key == Key(req.address, req.chainId)
        keyed == IF key \in DOMAIN store THEN store ELSE Put(store, key, EmptyMap)
    IN  IF ProposeFieldsMissing(req)
        THEN Response(400, store, NoProposal)
        ELSE IF req.hash \in DOMAIN keyed[key]
        THEN Response(409, keyed, keyed[key][req.hash])
        ELSE Response(201, Put(keyed, key, Put(keyed[key], req.hash, ProposalOf(req))),
                      ProposalOf(req))

NoSignature == [signer |-> NoAddress, msg |-> NoHash, form |-> "none"]

\* mutant: the comparison of the signers keeps the case of the letters
AlreadySignedExact(proposal, signer) ==
    \E i \in 1..Len(proposal.signatures) : proposal.signatures[i].signer = signer

\* mutant: no signer counts as having signed
AlreadySignedNever(proposal, signer) == FALSE

AlreadySigned(proposal, signer) ==
    \E i \in 1..Len(proposal.signatures) :
        toLowerCase(proposal.signatures[i].signer) = toLowerCase(signer)

SignFieldsMissing(req) ==
    \/ Falsy(req.address) \/ Falsy(req.chainId) \/ FalsyHash(req.hash)
    \/ Falsy(req.signer) \/ req.signature = NoSignature

\* the proposal with the request's signer and signature at the end of its list
Signed(proposal, req) ==
    [proposal EXCEPT !.signatures =
        Append(@, [signer |-> req.signer, signature |-> req.signature])]

\* mutant: a signature for a hash not stored creates an entry that holds it
PostSignUpsert(store, req) ==
    LET key == Key(req.address, req.chainId)
        keyed == IF key \in DOMAIN store THEN store ELSE Put(store, key, EmptyMap)
        proposal == IF req.hash \in DOMAIN keyed[key] THEN keyed[key][req.hash]
                    ELSE [NoProposal EXCEPT !.hash = req.hash]
    IN  IF SignFieldsMissing(req) THEN Response(400, store, NoProposal)
        ELSE IF AlreadySigned(proposal, req.signer) THEN Response(409, store, proposal)
        ELSE Response(200, Put(keyed, key, Put(keyed[key], req.hash, Signed(proposal, req))),
                      Signed(proposal, req))

\* mutant: a second signature of a signer replaces the stored one
PostSignReplace(store, req) ==
    LET key == Key(req.address, req.chainId) IN
    IF SignFieldsMissing(req) THEN Response(400, store, NoProposal)
    ELSE IF key \notin DOMAIN store THEN Response(404, store, NoProposal)
    ELSE IF req.hash \notin DOMAIN store[key] THEN Response(404, store, NoProposal)
    ELSE LET proposal == store[key][req.hash]
             replaced == [proposal EXCEPT !.signatures =
                            [i \in DOMAIN @ |->
                                IF toLowerCase(@[i].signer) = toLowerCase(req.signer)
                                THEN [signer |-> req.signer, signature |-> req.signature]
                                ELSE @[i]]]
             signed == IF AlreadySigned(proposal, req.signer) THEN replaced
                       ELSE Signed(proposal, req)
         IN  Response(200, Put(store, key, Put(store[key], req.hash, signed)), signed)

\* mutant: a new signature goes to the front of the list
PostSignPrepend(store, req) ==
    LET key == Key(req.address, req.chainId) IN
    IF SignFieldsMissing(req) THEN Response(400, store, NoProposal)
    ELSE IF key \notin DOMAIN store THEN Response(404, store, NoProposal)
    ELSE IF req.hash \notin DOMAIN store[key] THEN Response(404, store, NoProposal)
    ELSE LET proposal == store[key][req.hash]
             signed == [proposal EXCEPT !.signatures =
                            <<[signer |-> req.signer, signature |-> req.signature]>> \o @]
         IN  IF AlreadySigned(proposal, req.signer) THEN Response(409, store, proposal)
             ELSE Response(200, Put(store, key, Put(store[key], req.hash, signed)), signed)

\* mutant: a signature that does not recover to the signer it names is refused
PostSignVerified(store, req) ==
    LET key == Key(req.address, req.chainId) IN
    IF SignFieldsMissing(req) THEN Response(400, store, NoProposal)
    ELSE IF key \notin DOMAIN store THEN Response(404, store, NoProposal)
    ELSE IF req.hash \notin DOMAIN store[key] THEN Response(404, store, NoProposal)
    ELSE LET proposal == store[key][req.hash] IN
         IF recover(req.hash, req.signature) # toLowerCase(req.signer)
         THEN Response(400, store, NoProposal)
         ELSE IF AlreadySigned(proposal, req.signer) THEN Response(409, store, proposal)
         ELSE Response(200, Put(store, key, Put(store[key], req.hash, Signed(proposal, req))),
                       Signed(proposal, req))

\* mutant: the stored list is the new approval alone
PostSignKeepsLast(store, req) ==
    LET key == Key(req.address, req.chainId) IN
    IF SignFieldsMissing(req) THEN Response(400, store, NoProposal)
    ELSE IF key \notin DOMAIN store THEN Response(404, store, NoProposal)
    ELSE IF req.hash \notin DOMAIN store[key] THEN Response(404, store, NoProposal)
    ELSE LET proposal == store[key][req.hash]
             signed == [proposal EXCEPT !.signatures =
                            <<[signer |-> req.signer, signature |-> req.signature]>>]
         IN  IF AlreadySigned(proposal, req.signer) THEN Response(409, store, proposal)
             ELSE Response(200, Put(store, key, Put(store[key], req.hash, signed)), signed)

PostSign(store, req) ==
    LET key == Key(req.address, req.chainId) IN
    IF SignFieldsMissing(req) THEN Response(400, store, NoProposal)
    ELSE IF key \notin DOMAIN store THEN Response(404, store, NoProposal)
    ELSE IF req.hash \notin DOMAIN store[key] THEN Response(404, store, NoProposal)
    ELSE LET proposal == store[key][req.hash] IN
         IF AlreadySigned(proposal, req.signer) THEN Response(409, store, proposal)
         ELSE Response(200, Put(store, key, Put(store[key], req.hash, Signed(proposal, req))),
                       Signed(proposal, req))

\* mutant: the proposals of some key the store holds, whatever key is asked for
GetProposalsAnyKey(store, address, chain) ==
    IF DOMAIN store # {} THEN store[CHOOSE k \in DOMAIN store : TRUE] ELSE EmptyMap

GetProposals(store, address, chain) ==
    IF Key(address, chain) \in DOMAIN store THEN store[Key(address, chain)] ELSE EmptyMap

Stored(store) == UNION {{store[k][h] : h \in DOMAIN store[k]} : k \in DOMAIN store}

----------------------------------------------------------------------------
(* Client: create, sign and execute pages *)

\* mutant: the comparison of the sort is the other way round
RECURSIVE SortedInsertDescending(_, _)
SortedInsertDescending(s, x) ==
    IF s = <<>> THEN <<x>>
    ELSE IF BigInt(x.signer) < BigInt(Head(s).signer)
         THEN <<Head(s)>> \o SortedInsertDescending(Tail(s), x)
         ELSE <<x>> \o s

\* insertion of x into the list s sorted by BigInt(signer)
RECURSIVE SortedInsert(_, _)
SortedInsert(s, x) ==
    IF s = <<>> THEN <<x>>
    ELSE IF BigInt(x.signer) > BigInt(Head(s).signer)
         THEN <<Head(s)>> \o SortedInsert(Tail(s), x)
         ELSE <<x>> \o s

RECURSIVE SortBySigner(_)
SortBySigner(s) ==
    IF s = <<>> THEN <<>> ELSE SortedInsert(SortBySigner(Tail(s)), Head(s))

\* the first occurrence of every signature, in order
RECURSIVE Unique(_, _)
Unique(s, used) ==
    IF s = <<>> THEN <<>>
    ELSE IF Head(s) \in used THEN Unique(Tail(s), used)
         ELSE <<Head(s)>> \o Unique(Tail(s), used \cup {Head(s)})

getSortedSigList(allSigs, newHash) ==
    LET sigList == [i \in 1..Len(allSigs) |->
                        [signature |-> allSigs[i].signature,
                         signer |-> recover(newHash, allSigs[i].signature)]]
        sorted == SortBySigner(sigList)
    IN  Unique([i \in 1..Len(sorted) |-> sorted[i].signature], {})

ProposableTxs == {TxSeq[1], TxSeq[2]}

\* response.ok
ResponseOk(status) == 200 <= status /\ status <= 299

NoticeProposed == "Transaction proposed successfully!"
NoticeProposeFailed == "Error while proposing transaction"

\* mutant: the conflict status counts as a creation
ProposeNoticeConflictOk(status) ==
    IF ResponseOk(status) \/ status = 409 THEN NoticeProposed ELSE NoticeProposeFailed

\* the notification the create page shows for the response to POST /propose
ProposeNotice(status) == IF ResponseOk(status) THEN NoticeProposed ELSE NoticeProposeFailed

\* create page: Create button
handleCreate(account, tx) ==
    LET newHash == getTransactionHash(nonce, tx.to, tx.value, tx.data)
        signature == signTransactionHash(account, newHash)
        recovered == recover(newHash, signature)
        proposalData == [address |-> Wallet, chainId |-> chainId, hash |-> newHash,
                         to |-> tx.to, value |-> tx.value, data |-> tx.data,
                         nonce |-> nonce, proposer |-> recovered]
        response == PostPropose(multisigData, proposalData)
    IN  IF recovered \in isOwner
        THEN /\ multisigData' = response.store
             /\ last' = [Outcome("propose", ProposeNotice(response.status))
                            EXCEPT !.hash = newHash]
        ELSE /\ UNCHANGED multisigData
             /\ last' = Outcome("propose", "Only owners can propose transactions")

\* pool page: Sign button of a listed transaction
signOnClick(account, tx) ==
    LET signature == signTransactionHash(account, tx.hash)
        signer == recover(tx.hash, signature)
        signData == [address |-> Wallet, chainId |-> chainId, hash |-> tx.hash,
                     signer |-> signer, signature |-> signature]
        response == PostSign(multisigData, signData)
    IN  IF toLowerCase(signer) # toLowerCase(account)
        THEN /\ UNCHANGED multisigData
             /\ last' = Outcome("sign", "Recovered signer does not match connected account!")
        ELSE IF signer \in isOwner
        THEN /\ multisigData' = response.store
             /\ last' = Outcome("sign",
                            IF response.status = 200 THEN "signed"
                            ELSE IF response.status = 409 THEN "Already signed"
                            ELSE "error")
        ELSE /\ UNCHANGED multisigData
             /\ last' = Outcome("sign", "Only owners can sign transactions")

hasEnoughSignatures(tx) == Len(tx.signatures) >= signaturesRequired

\* pool page: Exec button of a listed transaction; viewNonce is the nonce the page read
execOnClick(account, tx, viewNonce) ==
    LET hashForExecution == getTransactionHash(viewNonce, tx.to, tx.value, tx.data)
        finalSigList == getSortedSigList(tx.signatures, hashForExecution)
    IN  IF \E i \in 1..Len(tx.signatures) : recover(hashForExecution, tx.signatures[i].signature) = NoAddress
        THEN /\ UNCHANGED ledgerVars
             /\ last' = Outcome("exec", "Error executing transaction")
        ELSE IF Len(finalSigList) < signaturesRequired
        THEN /\ UNCHANGED ledgerVars
             /\ last' = Outcome("exec", "Transaction no longer has enough valid signatures after processing.")
        ELSE executeTransaction(account, Tx(tx.to, tx.value, tx.data), finalSigList)

Listed == GetProposals(multisigData, Wallet, chainId)

\* pool page: the hashes and the highest nonce of the ExecuteTransaction events
historyHashes == {events[i] : i \in 1..Len(events)}

\* event.args.nonce ? BigInt(event.args.nonce) : -1n
eventNonce(event) == IF event.nonce # 0 THEN event.nonce ELSE 0 - 1

RECURSIVE reduceMaxNonce(_, _)
reduceMaxNonce(history, maxNonce) ==
    IF history = <<>> THEN maxNonce
    ELSE reduceMaxNonce(Tail(history),
                        IF eventNonce(Head(history)) > maxNonce
                        THEN eventNonce(Head(history)) ELSE maxNonce)

lastExecutedNonce == IF events = <<>> THEN 0 - 1 ELSE reduceMaxNonce(events, 0 - 1)

completed(tx) == tx.hash \in historyHashes
outdated(tx) == lastExecutedNonce >= 0 /\ tx.nonce <= lastExecutedNonce

\* the accounts connected to the pages
Clients == {owner1, owner2, nonOwner}

HandleCreate ==
    /\ Cardinality(Stored(multisigData)) < MaxProposals
    /\ \E account \in Clients, tx \in ProposableTxs : handleCreate(account, tx)
    /\ UNCHANGED <<ledgerVars, call, codec, http, net>>

SignOnClick ==
    /\ \E account \in Clients, h \in DOMAIN Listed : signOnClick(account, Listed[h])
    /\ UNCHANGED <<ledgerVars, call, codec, http, net>>

\* pool page: the interval that fetches the proposals of the wallet
PollProposals ==
    /\ last' = Outcome("list", "fetched")
    /\ UNCHANGED <<ledgerVars, multisigData, call, codec, http, net>>

ExecOnClick ==
    /\ nonce < MaxNonce
    /\ \E account \in Clients, h \in DOMAIN Listed, viewNonce \in 0..nonce :
          /\ hasEnoughSignatures(Listed[h])
          /\ execOnClick(account, Listed[h], viewNonce)
    /\ UNCHANGED <<multisigData, call, codec, http, net>>

----------------------------------------------------------------------------
(* Sequences of at most n elements of S *)

SeqsUpTo(S, n) == UNION {[1..k -> S] : k \in 0..n}

\* a signature of the same key over the action at the next nonce
StaleSig(signer, tx) == signTransactionHash(signer, HashOf(nonce + 1, tx))
HighS(sig) == [sig EXCEPT !.form = "high"]
Truncated(sig) == [sig EXCEPT !.form = "short"]

----------------------------------------------------------------------------
(* Initial state: the deployment of the test fixture *)

NoCall ==
    [made |-> FALSE, sender |-> NoAddress, tx |-> TxSeq[1], signatures |-> <<>>,
     nonce |-> 0, owners |-> {}, required |-> 0, verdict |-> "", result |-> ""]

NoCodec == [made |-> FALSE, a |-> <<>>, b |-> <<>>, hashA |-> NoHash, hashB |-> NoHash,
            again |-> NoHash]

Init ==
    /\ nonce = 0
    /\ isOwner = {owner1, owner2, owner3}
    /\ signaturesRequired = 2
    /\ events = <<>>
    /\ balance = FundedBalances
    /\ multisigData = <<>>
    /\ last = Outcome("deploy", "ok")
    /\ call = NoCall
    /\ codec = NoCodec
    /\ http = NoExchange
    /\ net = NoNet

----------------------------------------------------------------------------
(* The ledger with arbitrary callers *)

Senders == {owner1, owner3, nonOwner}

DirectSigPool(tx) ==
    {signTransactionHash(s, HashOf(nonce, tx)) : s \in Keyed}
        \cup {StaleSig(owner1, tx), Truncated(signTransactionHash(owner2, HashOf(nonce, tx)))}

\* any account submits any action with any candidate list
DirectExecute ==
    /\ nonce < MaxNonce
    /\ \E sender \in Senders, tx \in Txs :
         \E sigs \in SeqsUpTo(DirectSigPool(tx), MaxDirectSigs) :
            executeTransaction(sender, tx, sigs)
    /\ UNCHANGED <<multisigData, call, codec, http, net>>

\* any account calls a membership function of the wallet itself
DirectGovern ==
    /\ \E sender \in Senders, data \in GovernCalls : governDirectly(sender, data)
    /\ UNCHANGED <<multisigData, call, codec, http, net>>

Next == DirectExecute \/ DirectGovern

Spec == Init /\ [][Next]_vars

----------------------------------------------------------------------------
(* The pool server, its clients and the ledger they execute on *)

NextPool == HandleCreate \/ SignOnClick \/ ExecOnClick \/ PollProposals

SpecPool == Init /\ [][NextPool]_vars

----------------------------------------------------------------------------
(* One executeTransaction call from every ledger state of a bounded family *)

ProbeTxs == {TxSeq[1], TxSeq[3], TxSeq[4], TxSeq[7]}
ProbeSenders == {owner1, nonOwner}

ProbeSigPool(tx) ==
    {signTransactionHash(s, HashOf(nonce, tx)) : s \in Keyed}
        \cup {StaleSig(owner2, tx),
              HighS(signTransactionHash(owner1, HashOf(nonce, tx))),
              Truncated(signTransactionHash(owner3, HashOf(nonce, tx)))}

InitCall ==
    /\ nonce \in 0..1
    /\ isOwner \in (SUBSET Keyed) \ {{}}
    /\ signaturesRequired \in 1..Cardinality(isOwner)
    /\ events = [i \in 1..nonce |-> HashOf(i - 1, TxSeq[1])]
    /\ balance = [FundedBalances EXCEPT ![Wallet] = @ - nonce * TxSeq[1].value,
                                        ![TxSeq[1].to] = nonce * TxSeq[1].value]
    /\ multisigData = <<>>
    /\ last = Outcome("deploy", "ok")
    /\ call = NoCall
    /\ codec = NoCodec
    /\ http = NoExchange
    /\ net = NoNet

ProbeExecute ==
    /\ ~call.made
    /\ \E sender \in ProbeSenders, tx \in ProbeTxs :
         \E sigs \in SeqsUpTo(ProbeSigPool(tx), MaxSigs) :
            /\ executeTransaction(sender, tx, sigs)
            /\ call' = [made |-> TRUE, sender |-> sender, tx |-> tx, signatures |-> sigs,
                        nonce |-> nonce, owners |-> isOwner, required |-> signaturesRequired,
                        verdict |-> QuorumVerifier(HashOf(nonce, tx), isOwner,
                                                   signaturesRequired, sigs),
                        result |-> ExecuteOutcome(sender, tx, sigs)]
    /\ UNCHANGED <<multisigData, codec, http, net>>

NextCall == ProbeExecute

SpecCall == InitCall /\ [][NextCall]_vars

----------------------------------------------------------------------------
(* The pool server under the requests of any client, and the pool page     *)
(* that executes what the server holds                                      *)

\* a second canonical signature of the same key over the same message
Resigned(sig) == [sig EXCEPT !.form = "alt"]

ProposeRequest(address, chain, hash, tx, n, proposer) ==
    [NoRequest EXCEPT !.address = address, !.chainId = chain, !.hash = hash,
                      !.to = tx.to, !.value = tx.value, !.data = tx.data,
                      !.nonce = n, !.proposer = proposer]

SignRequest(address, chain, hash, signer, signature) ==
    [NoRequest EXCEPT !.address = address, !.chainId = chain, !.hash = hash,
                      !.signer = signer, !.signature = signature]

\* an address and a chain id with an underscore in them, and the pair of
\* strings that splits the same characters at the other underscore
SplitLate == <<Joined(Wallet, OtherChain), chainId>>
SplitEarly == <<Wallet, Joined(OtherChain, chainId)>>

RawProposals ==
    { ProposeRequest(Wallet, chainId, HashOf(0, TxSeq[1]), TxSeq[1], 0, owner1),
      ProposeRequest(Wallet, chainId, HashOf(0, TxSeq[1]), TxSeq[2], 0, nonOwner),
      ProposeRequest(Wallet, chainId, HashOf(0, TxSeq[2]), TxSeq[2], 0, owner2),
      ProposeRequest(Wallet, OtherChain, HashOf(0, TxSeq[1]), TxSeq[1], 0, owner1),
      ProposeRequest(SplitLate[1], SplitLate[2], HashOf(0, TxSeq[1]), TxSeq[1], 0, owner1),
      [ProposeRequest(Wallet, chainId, HashOf(0, TxSeq[2]), TxSeq[2], 0, owner2)
          EXCEPT !.to = Missing] }

\* the mixed-case spelling of a lower-case address
MixedCase(a) == a + 1000

\* genuine approvals of two members and of a non-member, the signature of
\* owner1 under the name of owner2, a second approval of owner1 under the
\* other spelling of its address, an approval of another proposal, an
\* approval without a signature and one under a key never used
RawSigns ==
    { SignRequest(Wallet, chainId, HashOf(0, TxSeq[1]), owner1,
                  signTransactionHash(owner1, HashOf(0, TxSeq[1]))),
      SignRequest(Wallet, chainId, HashOf(0, TxSeq[1]), owner2,
                  signTransactionHash(owner2, HashOf(0, TxSeq[1]))),
      SignRequest(Wallet, chainId, HashOf(0, TxSeq[1]), owner2,
                  Resigned(signTransactionHash(owner1, HashOf(0, TxSeq[1])))),
      SignRequest(Wallet, chainId, HashOf(0, TxSeq[1]), MixedCase(owner1),
                  Resigned(signTransactionHash(owner1, HashOf(0, TxSeq[1])))),
      SignRequest(Wallet, chainId, HashOf(0, TxSeq[1]), nonOwner,
                  signTransactionHash(nonOwner, HashOf(0, TxSeq[1]))),
      SignRequest(Wallet, chainId, HashOf(0, TxSeq[2]), owner2,
                  signTransactionHash(owner2, HashOf(0, TxSeq[2]))),
      SignRequest(Wallet, chainId, HashOf(0, TxSeq[1]), owner3, NoSignature),
      SignRequest(OtherWallet, chainId, HashOf(0, TxSeq[1]), owner1,
                  signTransactionHash(owner1, HashOf(0, TxSeq[1]))) }

\* the address and the chain id of the path of a GET
ListRequest(address, chain) == [NoRequest EXCEPT !.address = address, !.chainId = chain]

RawLists ==
    { ListRequest(Wallet, chainId), ListRequest(Wallet, OtherChain),
      ListRequest(OtherWallet, chainId), ListRequest(SplitEarly[1], SplitEarly[2]) }

RawPropose ==
    /\ \E req \in RawProposals :
          LET response == PostPropose(multisigData, req) IN
          /\ multisigData' = response.store
          /\ http' = Exchange("propose", req, response.status, response.body)
    /\ last' = Outcome("request", "answered")
    /\ UNCHANGED <<ledgerVars, call, codec, net>>

\* mutant: the handler of a signature that is stored advances the nonce
RawSignAdvancesNonce ==
    /\ \E req \in RawSigns :
          LET response == PostSign(multisigData, req) IN
          /\ multisigData' = response.store
          /\ http' = Exchange("sign", req, response.status, response.body)
          /\ nonce' = IF response.status = 200 /\ nonce < MaxNonce THEN nonce + 1 ELSE nonce
    /\ last' = Outcome("request", "answered")
    /\ UNCHANGED <<isOwner, signaturesRequired, events, balance, call, codec, net>>

RawSign ==
    /\ \E req \in RawSigns :
          LET response == PostSign(multisigData, req) IN
          /\ multisigData' = response.store
          /\ http' = Exchange("sign", req, response.status, response.body)
    /\ last' = Outcome("request", "answered")
    /\ UNCHANGED <<ledgerVars, call, codec, net>>

\* the pool page of owner1, its nonce just read, executes a listed proposal
ExecStored ==
    /\ nonce < MaxNonce
    /\ \E h \in DOMAIN Listed :
          /\ hasEnoughSignatures(Listed[h])
          /\ execOnClick(owner1, Listed[h], nonce)
    /\ http' = NoExchange
    /\ UNCHANGED <<multisigData, call, codec, net>>

RawList ==
    /\ \E req \in RawLists :
          http' = Listing(req, GetProposals(multisigData, req.address, req.chainId))
    /\ last' = Outcome("request", "answered")
    /\ UNCHANGED <<ledgerVars, multisigData, call, codec, net>>

NextCoord == RawPropose \/ RawSign \/ RawList \/ ExecStored

SpecCoord == Init /\ [][NextCoord]_vars

----------------------------------------------------------------------------
(* The pool server with several requests in flight: a handler has no await *)
(* between its first read of the store and its response, so the single     *)
(* thread of the server runs it whole, and requests in flight are handled  *)
(* one after the other in any order                                        *)

MaxRequests == 3

\* two proposals of one hash that differ in fields and proposer, three
\* approvals of it: two under the two spellings of owner1, one of owner2,
\* and a listing of the wallet's proposals
ConcRequests ==
    { [op |-> "propose",
       req |-> ProposeRequest(Wallet, chainId, HashOf(0, TxSeq[1]), TxSeq[1], 0, owner1)],
      [op |-> "propose",
       req |-> ProposeRequest(Wallet, chainId, HashOf(0, TxSeq[1]), TxSeq[2], 0, nonOwner)],
      [op |-> "sign",
       req |-> SignRequest(Wallet, chainId, HashOf(0, TxSeq[1]), owner1,
                           signTransactionHash(owner1, HashOf(0, TxSeq[1])))],
      [op |-> "sign",
       req |-> SignRequest(Wallet, chainId, HashOf(0, TxSeq[1]), MixedCase(owner1),
                           Resigned(signTransactionHash(owner1, HashOf(0, TxSeq[1]))))],
      [op |-> "sign",
       req |-> SignRequest(Wallet, chainId, HashOf(0, TxSeq[1]), owner2,
                           signTransactionHash(owner2, HashOf(0, TxSeq[1])))],
      [op |-> "list", req |-> ListRequest(Wallet, chainId)] }

\* the requests the server has answered, by their place in net.sent
Answered == {net.answers[i].id : i \in 1..Len(net.answers)}

InFlight == (1..Len(net.sent)) \ Answered

\* a client sends a request while others are in flight
SendRequest ==
    /\ Len(net.sent) < MaxRequests
    /\ \E r \in ConcRequests : net' = [net EXCEPT !.sent = Append(@, r)]
    /\ UNCHANGED <<ledgerVars, multisigData, last, call, codec, http>>

Answer(id, response) ==
    /\ multisigData' = response.store
    /\ net' = [net EXCEPT !.answers =
                  Append(@, [id |-> id, status |-> response.status, body |-> response.body,
                             listing |-> EmptyMap])]

ServePropose ==
    /\ \E id \in InFlight :
          /\ net.sent[id].op = "propose"
          /\ Answer(id, PostPropose(multisigData, net.sent[id].req))
    /\ UNCHANGED <<ledgerVars, last, call, codec, http>>

ServeSign ==
    /\ \E id \in InFlight :
          /\ net.sent[id].op = "sign"
          /\ Answer(id, PostSign(multisigData, net.sent[id].req))
    /\ UNCHANGED <<ledgerVars, last, call, codec, http>>

ServeList ==
    /\ \E id \in InFlight :
          /\ net.sent[id].op = "list"
          /\ net' = [net EXCEPT !.answers =
                        Append(@, [id |-> id, status |-> 200, body |-> NoProposal,
                                   listing |-> GetProposals(multisigData,
                                                            net.sent[id].req.address,
                                                            net.sent[id].req.chainId)])]
    /\ UNCHANGED <<ledgerVars, multisigData, last, call, codec, http>>

NextConc == SendRequest \/ ServePropose \/ ServeSign \/ ServeList

SpecConc == Init /\ [][NextConc]_vars

----------------------------------------------------------------------------
(* The validation of the pool server: requests that lack a field each, and *)
(* requests whose fields are zero                                          *)

WholeProposal ==
    ProposeRequest(Wallet, chainId, HashOf(0, TxSeq[1]), TxSeq[1], 0, owner1)

\* nonce 0, value the number 0, data "0x"
ZeroTx == Tx(nonOwner, AsNumber(0), NoData)
ZeroProposal ==
    ProposeRequest(Wallet, chainId, getTransactionHash(0, nonOwner, 0, NoData), ZeroTx, 0, owner1)

\* the same under the chain id 0
ZeroChainProposal ==
    ProposeRequest(Wallet, 0, hashIn(Wallet, 0, 0, nonOwner, 0, NoData), ZeroTx, 0, owner1)

FieldProposals ==
    { WholeProposal, ZeroProposal, ZeroChainProposal,
      [WholeProposal EXCEPT !.address = Missing],
      [WholeProposal EXCEPT !.chainId = Missing],
      [WholeProposal EXCEPT !.hash = NoHash],
      [WholeProposal EXCEPT !.to = Missing],
      [WholeProposal EXCEPT !.value = Missing],
      [WholeProposal EXCEPT !.data = UndefinedData],
      [WholeProposal EXCEPT !.nonce = Missing] }

WholeSign(signer) ==
    SignRequest(Wallet, chainId, HashOf(0, TxSeq[1]), signer,
                signTransactionHash(signer, HashOf(0, TxSeq[1])))

FieldSigns ==
    { WholeSign(owner1), WholeSign(owner2),
      [WholeSign(owner1) EXCEPT !.address = Missing],
      [WholeSign(owner1) EXCEPT !.chainId = Missing],
      [WholeSign(owner1) EXCEPT !.hash = NoHash],
      [WholeSign(owner1) EXCEPT !.signer = Missing],
      [WholeSign(owner1) EXCEPT !.signature = NoSignature] }

FieldsPropose ==
    /\ \E req \in FieldProposals :
          LET response == PostPropose(multisigData, req) IN
          /\ multisigData' = response.store
          /\ http' = Exchange("propose", req, response.status, response.body)
    /\ UNCHANGED <<ledgerVars, last, call, codec, net>>

FieldsSign ==
    /\ \E req \in FieldSigns :
          LET response == PostSign(multisigData, req) IN
          /\ multisigData' = response.store
          /\ http' = Exchange("sign", req, response.status, response.body)
    /\ UNCHANGED <<ledgerVars, last, call, codec, net>>

NextFields == FieldsPropose \/ FieldsSign

SpecFields == Init /\ [][NextFields]_vars

----------------------------------------------------------------------------
(* The pool server with approvals in flight for two proposals it holds *)

\* the store after two proposals of the wallet have been created
TwoProposals ==
    PostPropose(PostPropose(EmptyMap, WholeProposal).store,
                ProposeRequest(Wallet, chainId, HashOf(0, TxSeq[2]), TxSeq[2], 0, owner2)).store

InitSigns ==
    /\ nonce = 0
    /\ isOwner = {owner1, owner2, owner3}
    /\ signaturesRequired = 2
    /\ events = <<>>
    /\ balance = FundedBalances
    /\ multisigData = TwoProposals
    /\ last = Outcome("deploy", "ok")
    /\ call = NoCall
    /\ codec = NoCodec
    /\ http = NoExchange
    /\ net = NoNet

\* approvals of the first proposal by owner1, in two spellings, and owner2,
\* and of the second proposal by owner1 and owner2
ConcApprovals ==
    { [op |-> "sign", req |-> WholeSign(owner1)],
      [op |-> "sign", req |-> WholeSign(owner2)],
      [op |-> "sign",
       req |-> SignRequest(Wallet, chainId, HashOf(0, TxSeq[1]), MixedCase(owner1),
                           Resigned(signTransactionHash(owner1, HashOf(0, TxSeq[1]))))] }
      \cup
    { [op |-> "sign",
       req |-> SignRequest(Wallet, chainId, HashOf(0, TxSeq[2]), signer,
                           signTransactionHash(signer, HashOf(0, TxSeq[2])))] :
        signer \in {owner1, owner2} }

SendApproval ==
    /\ Len(net.sent) < MaxRequests
    /\ \E r \in ConcApprovals : net' = [net EXCEPT !.sent = Append(@, r)]
    /\ UNCHANGED <<ledgerVars, multisigData, last, call, codec, http>>

NextSigns == SendApproval \/ ServeSign

SpecSigns == InitSigns /\ [][NextSigns]_vars

----------------------------------------------------------------------------
(* Two fingerprint computations, in wallets of any address and chain id *)

CodecFields ==
    {Wallet, OtherWallet} \X {chainId, OtherChain} \X (0..1) \X {nonOwner, owner2}
        \X {1, 2} \X {NoData, AddSigner(nonOwner, 2)}

HashOfFields(f) == hashIn(f[1], f[2], f[3], f[4], f[5], f[6])

InitCodec ==
    /\ nonce = 0
    /\ isOwner = {owner1, owner2, owner3}
    /\ signaturesRequired = 2
    /\ events = <<>>
    /\ balance = FundedBalances
    /\ multisigData = <<>>
    /\ last = Outcome("deploy", "ok")
    /\ call = NoCall
    /\ codec \in {[NoCodec EXCEPT !.a = a, !.b = b] : a \in CodecFields, b \in CodecFields}
    /\ http = NoExchange
    /\ net = NoNet

ComputeHashes ==
    /\ ~codec.made
    /\ codec' = [codec EXCEPT !.made = TRUE,
                              !.hashA = HashOfFields(codec.a),
                              !.hashB = HashOfFields(codec.b),
                              !.again = HashOfFields(codec.a)]
    /\ UNCHANGED <<ledgerVars, multisigData, last, call, http, net>>

NextCodec == ComputeHashes

SpecCodec == InitCodec /\ [][NextCodec]_vars

----------------------------------------------------------------------------
(* Properties *)

Range(f) == {f[i] : i \in DOMAIN f}

\* the members among `members` with a canonical signature over h in sigs
MemberSigners(h, members, sigs) ==
    {a \in members : \E i \in 1..Len(sigs) : sigs[i] = [signer |-> a, msg |-> h, form |-> "low"]}

\* C1: every executed action was submitted with signatures over its
\* fingerprint by at least `threshold` distinct identities that were members
\* when it was executed.
C1_ExecutedHadQuorum ==
    (last.op = "execute" /\ last.result = "ok") =>
        /\ last.hash = events[Len(events)]
        /\ last.hash.nonce = nonce - 1
        /\ Cardinality(MemberSigners(last.hash, last.owners, last.signatures)) >= last.required

C1_Witness ==
    /\ last.op = "execute" /\ last.result = "ok"
    /\ last.owners = {owner1, owner2, owner3, nonOwner}
    /\ nonOwner \in MemberSigners(last.hash, last.owners, last.signatures)

\* what the candidate list of the probed call recovers to
CallHash == HashOf(call.nonce, call.tx)
CallRecovered == Recovered(CallHash, call.signatures)
CallAllRecover == \A i \in 1..Len(call.signatures) : CallRecovered[i] # NoAddress
CallAscending == \A i, j \in 1..Len(call.signatures) : i < j => CallRecovered[i] < CallRecovered[j]
CallAllMembers == \A i \in 1..Len(call.signatures) : CallRecovered[i] \in call.owners
CallMemberCount == Cardinality(MemberSigners(CallHash, call.owners, call.signatures))

\* C2 as stated: the verifier admits iff all signatures recover, the
\* recovered identities are strictly ascending, all of them are members and
\* their number is at least the threshold.
C2_Original ==
    call.made =>
        (call.verdict = Admit <=>
            /\ CallAllRecover
            /\ CallAscending
            /\ CallAllMembers
            /\ Len(call.signatures) >= call.required)

\* C2 amended: the verifier admits iff all signatures recover, the recovered
\* identities are strictly ascending, and the number of recovered identities
\* that are members is at least the threshold.
C2_AdmitIff ==
    call.made =>
        (call.verdict = Admit <=>
            /\ CallAllRecover
            /\ CallAscending
            /\ CallMemberCount >= call.required)

C2_Witness ==
    /\ call.made /\ call.verdict = Admit
    /\ ~CallAllMembers
    /\ call.required = 2

\* C3: a list whose recovered identities are not strictly ascending is
\* rejected as duplicate or unordered, also when it is long enough.
C3_UnorderedRejected ==
    (call.made /\ CallAllRecover /\ ~CallAscending) =>
        /\ call.verdict = ErrDuplicate
        /\ call.result # "ok"

C3_Witness ==
    /\ call.made /\ call.sender \in call.owners
    /\ Len(call.signatures) = 2 /\ call.required = 2
    /\ CallAllMembers
    /\ CallRecovered[1] > CallRecovered[2]
    /\ call.result = ErrDuplicate

\* C4 as stated: a strictly ascending list with a signature of a non-member
\* is rejected with UnknownSigner.
C4_Original ==
    (call.made /\ CallAllRecover /\ CallAscending /\ ~CallAllMembers) =>
        call.verdict = "UnknownSigner"

\* C4 amended: in a strictly ascending list the signature of a non-member is
\* passed over: the list is rejected, for not enough valid signatures, when
\* fewer member signatures than the threshold remain, and admitted otherwise.
C4_NonMemberPassedOver ==
    (call.made /\ CallAllRecover /\ CallAscending /\ ~CallAllMembers) =>
        call.verdict = (IF CallMemberCount < call.required THEN ErrNotEnough ELSE Admit)

C4_Witness ==
    /\ call.made /\ CallAllRecover /\ CallAscending /\ ~CallAllMembers
    /\ Len(call.signatures) = 2 /\ call.required = 2
    /\ call.sender \in call.owners
    /\ call.result = ErrNotEnough

\* C5: an execution whose list holds fewer signatures by members than the
\* threshold is rejected, for not enough valid signatures when nothing else
\* is wrong with the call.
C5_NonMembersNeverCount ==
    (call.made /\ CallMemberCount < call.required) =>
        /\ call.result # "ok"
        /\ (call.sender \in call.owners /\ CallAllRecover /\ CallAscending)
              => call.result = ErrNotEnough

C5_Witness ==
    /\ call.made /\ call.result = ErrNotEnough
    /\ Len(call.signatures) >= call.required
    /\ CallMemberCount = call.required - 1

\* C6: a rejected execution leaves the counter, the member set and the
\* threshold unchanged.
C6_RejectedChangesNothing ==
    [][(last'.op = "execute" /\ last'.result # "ok") =>
            (nonce' = nonce /\ isOwner' = isOwner /\ signaturesRequired' = signaturesRequired)]_vars

C6_Witness ==
    /\ last.op = "execute" /\ last.result = ErrDuplicate
    /\ nonce > 0
    /\ isOwner # {owner1, owner2, owner3}

\* C7: the counter starts at 0, a successful execution adds exactly 1, and
\* no other operation changes it.
C7_CounterSteps ==
    /\ nonce = 0
    /\ [][IF last'.op = "execute" /\ last'.result = "ok"
          THEN nonce' = nonce + 1
          ELSE nonce' = nonce]_vars

C7_Witness ==
    /\ nonce = 2
    /\ last.op = "sign" /\ last.result = "Already signed"

\* the action and the candidate list the pool page submits for a proposal
TxOf(p) == Tx(p.to, p.value, p.data)
ListFor(p, viewNonce) ==
    getSortedSigList(p.signatures, getTransactionHash(viewNonce, p.to, p.value, p.data))

\* C8: once an action has been executed, submitting the same action with the
\* same candidate list again is rejected, although the verifier still admits
\* the list for the original fingerprint.
C8_ReplayRejected ==
    /\ (last.op = "execute" /\ last.result = "ok") =>
          /\ QuorumVerifier(last.hash, last.owners, last.required, last.signatures) = Admit
          /\ \A sender \in Keyed :
                ExecuteOutcome(sender, Tx(last.hash.to, last.hash.value, last.hash.data),
                               last.signatures) # "ok"
    /\ \A h \in DOMAIN Listed :
          h \in Range(events) =>
             /\ QuorumVerifier(h, isOwner, signaturesRequired, ListFor(Listed[h], h.nonce)) = Admit
             /\ \A sender \in Keyed :
                   ExecuteOutcome(sender, TxOf(Listed[h]), ListFor(Listed[h], h.nonce)) # "ok"

C8_Witness ==
    /\ last.op = "execute" /\ last.result # "ok"
    /\ \E h \in DOMAIN Listed :
          /\ h \in Range(events)
          /\ last.hash = [h EXCEPT !.nonce = nonce]
          /\ QuorumVerifier(h, isOwner, signaturesRequired, ListFor(Listed[h], h.nonce)) = Admit

\* C9: a pending action whose sequence is not the ledger's counter cannot be
\* executed: every attempt built from its stored approvals is rejected and
\* leaves the counter as it is.
C9_StaleNeverExecutes ==
    \A h \in DOMAIN Listed :
        Listed[h].nonce # nonce =>
            \A sender \in Keyed, viewNonce \in 0..nonce :
                /\ ExecuteOutcome(sender, TxOf(Listed[h]), ListFor(Listed[h], viewNonce)) # "ok"
                /\ NonceAfter(sender, TxOf(Listed[h]), ListFor(Listed[h], viewNonce)) = nonce

C9_Witness ==
    /\ last.op = "execute" /\ last.result # "ok"
    /\ \E h \in DOMAIN Listed :
          /\ Listed[h].nonce # nonce
          /\ h \notin Range(events)
          /\ Len(Listed[h].signatures) >= signaturesRequired

\* C10: an execution submitted by a caller that is not a member is rejected,
\* also when the candidate list is a valid quorum.
C10_NonMemberCallerRejected ==
    (call.made /\ call.sender \notin call.owners) =>
        /\ call.result # "ok"
        /\ call.verdict = Admit => call.result = ErrOnlyOwners

C10_Witness ==
    /\ call.made /\ call.sender \notin call.owners
    /\ call.verdict = Admit /\ CallAllMembers
    /\ call.result = ErrOnlyOwners

\* C11: in every state of the ledger the member set is non-empty and the
\* threshold is at least 1 and at most the number of members.
C11_MembershipInvariant ==
    /\ isOwner # {}
    /\ 1 <= signaturesRequired
    /\ signaturesRequired <= Cardinality(isOwner)

C11_Witness ==
    /\ last.op = "execute" /\ last.result = "ok"
    /\ last.hash.data.fn = "removeSigner"
    /\ isOwner = {owner1, owner2}
    /\ signaturesRequired = Cardinality(isOwner)

\* the member set and the threshold the probed call asks for
CallMembersAfter == MembersAfter(call.owners, call.tx)
CallThresholdAfter == ThresholdAfter(call.required, call.tx)
CallBreaksBound ==
    \/ CallMembersAfter = {}
    \/ CallThresholdAfter < 1
    \/ CallThresholdAfter > Cardinality(CallMembersAfter)

\* C12: a change that would leave the threshold below 1 or above the
\* resulting number of members is rejected, with InvalidThreshold when the
\* call is otherwise valid, and the member set and the threshold stay as
\* they were.
C12_InvalidThresholdRejected ==
    (call.made /\ CallBreaksBound) =>
        /\ call.result # "ok"
        /\ isOwner = call.owners /\ signaturesRequired = call.required
        /\ (call.sender \in call.owners /\ call.verdict = Admit) => call.result = ErrThreshold

C12_Witness ==
    /\ call.made /\ call.result = ErrThreshold
    /\ call.tx.data.fn = "removeSigner"
    /\ call.tx.data.who \in call.owners
    /\ call.tx.data.req = Cardinality(call.owners)
    /\ signaturesRequired = call.required

GovernFns == {"addSigner", "removeSigner", "updateSignaturesRequired"}

\* C13: the member set and the threshold change only in a step that
\* executes an action addressed to the wallet, signed over the current
\* fingerprint by a quorum of the members in force before the step; a
\* direct call of a membership function changes nothing.
C13_OnlyQuorumChangesMembership ==
    [][/\ (isOwner' # isOwner \/ signaturesRequired' # signaturesRequired) =>
             /\ last'.op = "execute" /\ last'.result = "ok"
             /\ last'.hash = HashOf(nonce, Tx(Wallet, 0, last'.hash.data))
             /\ Cardinality(MemberSigners(last'.hash, isOwner, last'.signatures))
                    >= signaturesRequired
       /\ last'.op \in GovernFns =>
             /\ last'.result = ErrNotSelf
             /\ isOwner' = isOwner /\ signaturesRequired' = signaturesRequired]_vars

C13_Witness ==
    /\ last.op = "addSigner" /\ last.result = ErrNotSelf
    /\ nonOwner \notin isOwner
    /\ isOwner = {owner1, owner2}

\* C14: a successful execution of a transfer of value v to a target other
\* than the wallet takes exactly v from the wallet's balance, adds exactly v
\* to the target's balance and leaves every other balance as it was.
C14_TransferMovesValue ==
    [][(last'.op = "execute" /\ last'.result = "ok" /\ last'.hash.to # Wallet) =>
            /\ balance'[Wallet] = balance[Wallet] - last'.hash.value
            /\ balance'[last'.hash.to] = balance[last'.hash.to] + last'.hash.value
            /\ \A a \in Holders \ {Wallet, last'.hash.to} : balance'[a] = balance[a]]_vars

C14_Witness ==
    /\ last.op = "execute" /\ last.result = "ok"
    /\ last.hash = HashOf(0, Tx(nonOwner, 1, NoData))
    /\ balance[Wallet] = Funding - 1
    /\ balance[nonOwner] = 1

C16_HighSRejected ==
    call.made =>
        \A i \in 1..Len(call.signatures) :
            LET sig == call.signatures[i] IN
            /\ sig.form = "high" =>
                  /\ CallRecovered[i] = NoAddress
                  /\ call.verdict = ErrRecovery
                  /\ call.result # "ok"
            /\ (sig.form = "low" /\ CallRecovered[i] = sig.signer) =>
                  /\ recover(CallHash, HighS(sig)) # sig.signer
                  /\ recover(CallHash, Truncated(sig)) # sig.signer

C16_Witness ==
    /\ call.made /\ call.sender \in call.owners
    /\ call.required = 2 /\ {owner1, owner2} \subseteq call.owners
    /\ call.signatures = << signTransactionHash(owner2, CallHash),
                            HighS(signTransactionHash(owner1, CallHash)) >>
    /\ call.result = ErrRecovery

\* the identities claimed for the approvals of a proposal, and the keys that
\* made their signatures
ClaimedOf(p) == {toLowerCase(p.signatures[i].signer) : i \in 1..Len(p.signatures)}
KeysOf(p) == {p.signatures[i].signature.signer : i \in 1..Len(p.signatures)}

\* C17: whatever identities the stored approvals claim, a proposal executes
\* only when at least `threshold` member keys made its signatures: approvals
\* under several claimed identities made by one key count once at most.
C17_RecoveredIdentityCounts ==
    \A h \in DOMAIN Listed :
        \A sender \in Keyed, viewNonce \in 0..nonce :
            ExecuteOutcome(sender, TxOf(Listed[h]), ListFor(Listed[h], viewNonce)) = "ok" =>
                Cardinality(KeysOf(Listed[h]) \cap isOwner) >= signaturesRequired

C17_Witness ==
    /\ last.op = "execute" /\ last.result = ErrDuplicate
    /\ \E h \in DOMAIN Listed :
          /\ last.hash = h
          /\ ClaimedOf(Listed[h]) = {owner1, owner2}
          /\ KeysOf(Listed[h]) = {owner1}
          /\ Len(ListFor(Listed[h], nonce)) = 2

\* C19: a propose for a hash already stored under the request's key changes
\* nothing in the store, and, its fields being present, is answered with the
\* conflict status and the stored proposal, whatever fields it carries.
C19_DuplicateProposeKeepsEntry ==
    [][(/\ http'.op = "propose"
        /\ Key(http'.req.address, http'.req.chainId) \in DOMAIN multisigData
        /\ http'.req.hash
              \in DOMAIN multisigData[Key(http'.req.address, http'.req.chainId)]) =>
          /\ multisigData' = multisigData
          /\ ~ProposeFieldsMissing(http'.req) =>
                /\ http'.status = 409
                /\ http'.body =
                      multisigData[Key(http'.req.address, http'.req.chainId)][http'.req.hash]]_vars

C19_Witness ==
    /\ http.op = "propose" /\ http.status = 409
    /\ http.req.to = owner2 /\ http.req.proposer = nonOwner
    /\ http.body = Listed[http.req.hash]
    /\ http.body.to = nonOwner /\ http.body.proposer = owner1
    /\ Len(http.body.signatures) = 2
    /\ Cardinality(DOMAIN Listed) = 1

\* the members whose approval a proposal holds: claimed identity and the
\* signature's signer agree
ApproversOf(p) ==
    {a \in isOwner : \E i \in 1..Len(p.signatures) :
        /\ p.signatures[i].signer = a
        /\ recover(p.hash, p.signatures[i].signature) = a}

\* C18 as stated: once a member other than the proposer has approved a
\* proposal of the current nonce, the proposal holds the approvals of the
\* proposer and of that member, and its candidate list is admitted.
C18_Original ==
    \A h \in DOMAIN Listed :
        (Listed[h].nonce = nonce /\ ApproversOf(Listed[h]) \ {Listed[h].proposer} # {}) =>
            /\ Listed[h].proposer \in ApproversOf(Listed[h])
            /\ QuorumVerifier(h, isOwner, signaturesRequired, ListFor(Listed[h], nonce)) = Admit

\* C18 amended: a proposal is created without approvals, the proposer's
\* included; once the proposer and a second member have both approved it on
\* the pool page, it holds both approvals, and its candidate list for the
\* current nonce is two signatures long and admitted at threshold 2.
C18_BothMustApprove ==
    /\ [][(last'.op = "propose" /\ last'.result = NoticeProposed) =>
             Listed'[last'.hash].signatures = <<>>]_vars
    /\ [](\A h \in DOMAIN Listed :
             /\ Cardinality(ApproversOf(Listed[h])) = Len(Listed[h].signatures)
             /\ (/\ Listed[h].nonce = nonce
                 /\ Listed[h].proposer \in ApproversOf(Listed[h])
                 /\ Cardinality(ApproversOf(Listed[h])) = 2) =>
                    /\ Len(ListFor(Listed[h], nonce)) = 2
                    /\ signaturesRequired = 2
                    /\ QuorumVerifier(h, isOwner, signaturesRequired,
                                      ListFor(Listed[h], nonce)) = Admit)

C18_Witness ==
    /\ last.op = "execute" /\ last.result = "ok"
    /\ \E h \in DOMAIN Listed :
          /\ last.hash = h
          /\ Listed[h].proposer = owner2
          /\ ApproversOf(Listed[h]) = {owner1, owner2}
          /\ last.signatures = << signTransactionHash(owner2, h),
                                  signTransactionHash(owner1, h) >>

\* C20 as stated: the create page takes the conflict answer to a proposal
\* of a hash already pending for a creation.
C20_Original ==
    [][(last'.op = "propose" /\ last'.hash \in DOMAIN Listed) =>
            last'.result = NoticeProposed]_vars

\* C20 amended: a proposal of a hash already pending leaves the stored
\* entry as it was, and the create page reports it as a failure.
C20_DuplicateReportedAsFailure ==
    [][(last'.op = "propose" /\ last'.hash \in DOMAIN Listed) =>
            /\ last'.result = NoticeProposeFailed
            /\ multisigData' = multisigData]_vars

C20_Witness ==
    /\ last.op = "propose" /\ last.result = NoticeProposeFailed
    /\ last.hash \in DOMAIN Listed
    /\ Listed[last.hash].proposer = owner1
    /\ Len(Listed[last.hash].signatures) = 1

----------------------------------------------------------------------------
(* The pool server: approvals, listing and keys *)

KeyOf(req) == Key(req.address, req.chainId)

\* the store holds a proposal under the key and the hash of the request
Pending(store, req) == KeyOf(req) \in DOMAIN store /\ req.hash \in DOMAIN store[KeyOf(req)]

PendingFor(store, req) == store[KeyOf(req)][req.hash]

\* the stored proposal holds an approval under the request's signer, in any case
Approved(store, req) ==
    \E i \in 1..Len(PendingFor(store, req).signatures) :
        toLowerCase(PendingFor(store, req).signatures[i].signer) = toLowerCase(req.signer)

H1 == HashOf(0, TxSeq[1])
H2 == HashOf(0, TxSeq[2])

\* C21: a sign request, its fields present, for a hash that has no proposal
\* under the request's key (the key not in the store, or the hash not under
\* it) is answered not-found without a proposal, and the store, its keys
\* and every stored proposal and approval, is as before.
C21_UnknownProposalNotFound ==
    [][(/\ http'.op = "sign"
        /\ ~SignFieldsMissing(http'.req)
        /\ ~Pending(multisigData, http'.req)) =>
          /\ http'.status = 404
          /\ http'.body = NoProposal
          /\ multisigData' = multisigData]_vars

C21_Witness ==
    /\ http.op = "sign" /\ http.status = 404
    /\ http.req.hash = H2 /\ http.req.signer = owner2
    /\ KeyOf(http.req) \in DOMAIN multisigData
    /\ DOMAIN Listed = {H1}
    /\ Len(Listed[H1].signatures) = 2

\* C22: a sign request whose signer, compared without case, already has an
\* approval on the stored proposal is answered with the conflict status and
\* the stored proposal; the store is as before, so the approval keeps the
\* signature it had and the list its length.
C22_SecondApprovalRejected ==
    [][(/\ http'.op = "sign"
        /\ ~SignFieldsMissing(http'.req)
        /\ Pending(multisigData, http'.req)
        /\ Approved(multisigData, http'.req)) =>
          /\ http'.status = 409
          /\ http'.body = PendingFor(multisigData, http'.req)
          /\ multisigData' = multisigData]_vars

C22_Witness ==
    /\ http.op = "sign" /\ http.status = 409
    /\ http.req.signer = owner1
    /\ \E i \in 1..Len(Listed[H1].signatures) :
          /\ Listed[H1].signatures[i].signer = MixedCase(owner1)
          /\ Listed[H1].signatures[i].signature # http.req.signature
    /\ \A i \in 1..Len(Listed[H1].signatures) :
          Listed[H1].signatures[i].signer # owner1

\* C23: no stored proposal holds two approvals whose signers are equal
\* without case.
C23_OneApprovalPerIdentity ==
    \A p \in Stored(multisigData) :
        \A i, j \in 1..Len(p.signatures) :
            i # j => toLowerCase(p.signatures[i].signer) # toLowerCase(p.signatures[j].signer)

C23_Witness ==
    /\ http.op = "sign" /\ http.status = 409
    /\ http.req.signer = MixedCase(owner1)
    /\ Len(Listed[H1].signatures) = 3
    /\ {Listed[H1].signatures[i].signer : i \in 1..3} = {owner1, owner2, nonOwner}

\* C24: every step keeps every stored proposal under its key and hash, with
\* the hash, the fields and the proposer it had, and with an approval list
\* that starts with the list it had.
C24_PendingOnlyGrows ==
    [][\A k \in DOMAIN multisigData :
          /\ k \in DOMAIN multisigData'
          /\ \A h \in DOMAIN multisigData[k] :
                /\ h \in DOMAIN multisigData'[k]
                /\ [multisigData'[k][h] EXCEPT !.signatures = <<>>]
                      = [multisigData[k][h] EXCEPT !.signatures = <<>>]
                /\ Len(multisigData'[k][h].signatures) >= Len(multisigData[k][h].signatures)
                /\ SubSeq(multisigData'[k][h].signatures, 1,
                          Len(multisigData[k][h].signatures))
                      = multisigData[k][h].signatures]_vars

C24_Witness ==
    /\ nonce = 1 /\ Len(events) = 1
    /\ http.op = "sign" /\ http.status = 200
    /\ http.req.hash = H1 /\ http.req.signer = nonOwner
    /\ events[1] = H1
    /\ Len(Listed[H1].signatures) = 3
    /\ Listed[H1].signatures[3].signer = nonOwner
    /\ H2 \in DOMAIN Listed

\* C27: a sign request, its fields present, for a stored proposal that holds
\* no approval under the request's signer is answered 200 and its signer and
\* signature are appended as sent, whoever the signer is and whatever key
\* made the signature; a propose request, its fields present, for a hash
\* not stored is answered 201 and stored as sent, whoever the proposer is.
C27_AcceptedUnverified ==
    [][/\ (/\ http'.op = "sign"
           /\ ~SignFieldsMissing(http'.req)
           /\ Pending(multisigData, http'.req)
           /\ ~Approved(multisigData, http'.req)) =>
             /\ http'.status = 200
             /\ PendingFor(multisigData', http'.req).signatures =
                   Append(PendingFor(multisigData, http'.req).signatures,
                          [signer |-> http'.req.signer, signature |-> http'.req.signature])
       /\ (/\ http'.op = "propose"
           /\ ~ProposeFieldsMissing(http'.req)
           /\ ~Pending(multisigData, http'.req)) =>
             /\ http'.status = 201
             /\ PendingFor(multisigData', http'.req) = ProposalOf(http'.req)]_vars

C27_Witness ==
    /\ http.op = "sign" /\ http.status = 200
    /\ http.req.signer = owner2
    /\ recover(http.req.hash, http.req.signature) = owner1
    /\ Listed[H1].proposer = nonOwner /\ nonOwner \notin isOwner
    /\ Len(Listed[H1].signatures) = 2
    /\ Listed[H1].signatures[1].signer = nonOwner
    /\ Listed[H1].signatures[2] =
          [signer |-> owner2, signature |-> http.req.signature]

\* C28: a step that answers a propose, a sign or a list request leaves the
\* nonce, the owners, the threshold, the executed hashes and the balances
\* as they were, whatever the answer.
C28_CoordinatorLeavesLedger ==
    [][http'.op \in {"propose", "sign", "list"} => ledgerVars' = ledgerVars]_vars

C28_Witness ==
    /\ http.op = "sign" /\ http.status = 200 /\ http.req.hash = H1
    /\ Len(Listed[H1].signatures) = 2
    /\ hasEnoughSignatures(Listed[H1])
    /\ QuorumVerifier(H1, isOwner, signaturesRequired, ListFor(Listed[H1], nonce)) = Admit
    /\ nonce = 0 /\ events = <<>>

\* C29: a list request is answered 200 with the map of the proposals stored
\* under its key when it is handled, approvals included, and with the empty
\* map when the store has no such key; the store is as before.
C29_ListReturnsStored ==
    [][http'.op = "list" =>
          /\ http'.status = 200
          /\ http'.listing = (IF KeyOf(http'.req) \in DOMAIN multisigData
                              THEN multisigData[KeyOf(http'.req)] ELSE EmptyMap)
          /\ multisigData' = multisigData]_vars

C29_Witness ==
    /\ http.op = "list" /\ KeyOf(http.req) = Key(Wallet, chainId)
    /\ DOMAIN http.listing = {H1, H2}
    /\ Len(http.listing[H1].signatures) = 2
    /\ http.listing = Listed
    /\ Key(Wallet, OtherChain) \in DOMAIN multisigData

\* the pairs of an address and a chain id of the requests
Pairs ==
    {<<Wallet, chainId>>, <<Wallet, OtherChain>>, <<OtherWallet, chainId>>,
     SplitLate, SplitEarly}

\* an address and a chain id as the pages send them: no underscore in either
WellFormed(pair) == pair[1] < Joint /\ pair[2] < Joint

----------------------------------------------------------------------------
(* The pool server with requests in flight *)

\* the answer to the request at a place of net.sent
AnswerTo(id) == CHOOSE a \in Range(net.answers) : a.id = id

\* the place of an answer in the order the server handled the requests
HandledAt(id) == CHOOSE i \in 1..Len(net.answers) : net.answers[i].id = id

\* the answered requests of an operation that name the same key and hash as
\* the request at id, and were not refused as incomplete or unknown
SameProposal(op, id) ==
    {j \in Answered :
        /\ net.sent[j].op = op
        /\ KeyOf(net.sent[j].req) = KeyOf(net.sent[id].req)
        /\ net.sent[j].req.hash = net.sent[id].req.hash
        /\ AnswerTo(j).status \notin {400, 404}}

SameSigner(id) ==
    {j \in SameProposal("sign", id) :
        toLowerCase(net.sent[j].req.signer) = toLowerCase(net.sent[id].req.signer)}

\* C25: of the sign requests in flight together for one stored proposal
\* under signers equal without case, whatever order the server handles
\* them in, one is answered 200 and every other 409, and the proposal holds
\* one approval under that signer: the one of the request handled first.
C25_ConcurrentApprovalsOneWins ==
    \A id \in Answered :
        (net.sent[id].op = "sign" /\ AnswerTo(id).status \notin {400, 404}) =>
            /\ Cardinality({j \in SameSigner(id) : AnswerTo(j).status = 200}) = 1
            /\ \A j \in SameSigner(id) :
                  /\ AnswerTo(j).status \in {200, 409}
                  /\ AnswerTo(j).status = 200 =>
                        \A k \in SameSigner(id) : HandledAt(j) <= HandledAt(k)
            /\ Cardinality({i \in 1..Len(PendingFor(multisigData, net.sent[id].req).signatures) :
                    toLowerCase(PendingFor(multisigData, net.sent[id].req).signatures[i].signer)
                        = toLowerCase(net.sent[id].req.signer)}) = 1

C25_Witness ==
    /\ Len(net.sent) = 3 /\ Len(net.answers) = 3
    /\ net.sent[1].op = "propose"
    /\ net.sent[2].op = "sign" /\ net.sent[2].req.signer = owner1
    /\ net.sent[3].op = "sign" /\ net.sent[3].req.signer = MixedCase(owner1)
    /\ HandledAt(3) < HandledAt(2)
    /\ AnswerTo(3).status = 200 /\ AnswerTo(2).status = 409
    /\ Listed[H1].signatures =
          <<[signer |-> MixedCase(owner1), signature |-> net.sent[3].req.signature]>>

\* C26: of the propose requests in flight together for one hash under one
\* key, whatever order the server handles them in, one is answered 201, the
\* one handled first, and every other 409 with the entry that one created;
\* the store holds that one entry under the hash.
C26_ConcurrentProposalsOneCreates ==
    \A id \in Answered :
        (net.sent[id].op = "propose" /\ AnswerTo(id).status # 400) =>
            /\ Cardinality({j \in SameProposal("propose", id) : AnswerTo(j).status = 201}) = 1
            /\ \A j, k \in SameProposal("propose", id) :
                  AnswerTo(j).status = 201 =>
                      /\ HandledAt(j) <= HandledAt(k)
                      /\ k # j => AnswerTo(k).status = 409
                      /\ [AnswerTo(k).body EXCEPT !.signatures = <<>>]
                            = ProposalOf(net.sent[j].req)
                      /\ [PendingFor(multisigData, net.sent[id].req) EXCEPT !.signatures = <<>>]
                            = ProposalOf(net.sent[j].req)

C26_Witness ==
    /\ Len(net.sent) = 3 /\ Len(net.answers) = 3
    /\ net.sent[1].op = "propose" /\ net.sent[1].req.proposer = owner1
    /\ net.sent[2].op = "propose" /\ net.sent[2].req.proposer = nonOwner
    /\ net.sent[3].op = "sign"
    /\ HandledAt(2) < HandledAt(3) /\ HandledAt(3) < HandledAt(1)
    /\ AnswerTo(2).status = 201 /\ AnswerTo(3).status = 200 /\ AnswerTo(1).status = 409
    /\ AnswerTo(1).body.proposer = nonOwner
    /\ Len(AnswerTo(1).body.signatures) = 1
    /\ DOMAIN Listed = {H1} /\ Listed[H1].proposer = nonOwner

----------------------------------------------------------------------------
(* The validation of the pool server *)

\* the body of the request leaves a required field out
ProposeLacks(req) ==
    \/ req.address = Missing \/ req.chainId = Missing \/ req.hash = NoHash
    \/ req.to = Missing \/ req.value = Missing \/ req.data = UndefinedData
    \/ req.nonce = Missing

SignLacks(req) ==
    \/ req.address = Missing \/ req.chainId = Missing \/ req.hash = NoHash
    \/ req.signer = Missing \/ req.signature = NoSignature

\* C31: a propose request that leaves out the address, the chain id, the
\* hash, to, value, data or the nonce, and a sign request that leaves out
\* the address, the chain id, the hash, the signer or the signature, is
\* answered 400 without a proposal and the store is as before, whether or
\* not the store holds the proposal the request names.
C31_LackingFieldBadRequest ==
    [][/\ (http'.op = "propose" /\ ProposeLacks(http'.req)) =>
             /\ http'.status = 400 /\ http'.body = NoProposal
             /\ multisigData' = multisigData
       /\ (http'.op = "sign" /\ SignLacks(http'.req)) =>
             /\ http'.status = 400 /\ http'.body = NoProposal
             /\ multisigData' = multisigData]_vars

C31_Witness ==
    /\ http.op = "propose" /\ http.status = 400
    /\ http.req.nonce = Missing /\ http.req.hash = H1
    /\ H1 \in DOMAIN Listed
    /\ Len(Listed[H1].signatures) = 2
    /\ Cardinality(DOMAIN Listed) = 2

\* C36 as stated: a propose request with every required field in its body
\* is accepted (answered 201, or 409 when the hash is stored), also when
\* the nonce, the value or the chain id is 0 or the data is empty.
C36_Original ==
    [][(http'.op = "propose" /\ ~ProposeLacks(http'.req)) =>
            http'.status \in {201, 409}]_vars

\* the answered list requests the server handled after the request at id,
\* for the key of that request
ListedAfter(id) ==
    {l \in Answered :
        /\ net.sent[l].op = "list"
        /\ KeyOf(net.sent[l].req) = KeyOf(net.sent[id].req)
        /\ HandledAt(l) > HandledAt(id)}

\* C32: a list request the server handles after it has answered a propose
\* request 201 returns a proposal under that request's hash with the to,
\* data, nonce and proposer the request sent and its value as a string; a
\* list request handled after a sign request was answered 200 returns the
\* proposal with the signer and the signature the request sent in its list.
C32_AcceptedWritesAreListed ==
    \A id \in Answered :
        \A l \in ListedAfter(id) :
            /\ (net.sent[id].op = "propose" /\ AnswerTo(id).status = 201) =>
                  /\ net.sent[id].req.hash \in DOMAIN AnswerTo(l).listing
                  /\ [AnswerTo(l).listing[net.sent[id].req.hash] EXCEPT !.signatures = <<>>]
                        = [hash |-> net.sent[id].req.hash, to |-> net.sent[id].req.to,
                           value |-> String(net.sent[id].req.value),
                           data |-> net.sent[id].req.data, nonce |-> net.sent[id].req.nonce,
                           proposer |-> net.sent[id].req.proposer, signatures |-> <<>>]
            /\ (net.sent[id].op = "sign" /\ AnswerTo(id).status = 200) =>
                  /\ net.sent[id].req.hash \in DOMAIN AnswerTo(l).listing
                  /\ [signer |-> net.sent[id].req.signer,
                      signature |-> net.sent[id].req.signature]
                        \in Range(AnswerTo(l).listing[net.sent[id].req.hash].signatures)

C32_Witness ==
    /\ Len(net.sent) = 3 /\ Len(net.answers) = 3
    /\ net.sent[1].op = "list" /\ net.sent[2].op = "sign" /\ net.sent[3].op = "propose"
    /\ HandledAt(3) < HandledAt(2) /\ HandledAt(2) < HandledAt(1)
    /\ AnswerTo(3).status = 201 /\ AnswerTo(2).status = 200
    /\ DOMAIN AnswerTo(1).listing = {H1}
    /\ Len(AnswerTo(1).listing[H1].signatures) = 1

----------------------------------------------------------------------------
(* The pool page *)

\* C34 as stated: a listed proposal that is not completed is marked
\* outdated exactly when its nonce is lower than the nonce of the contract.
C34_Original ==
    \A h \in DOMAIN Listed :
        ~completed(Listed[h]) => (outdated(Listed[h]) <=> Listed[h].nonce < nonce)

\* C33 as stated: the list the pool page assembles from the stored approvals
\* of a listed proposal, for the hash of the contract's nonce, is strictly
\* ascending by the address its signatures recover to.
C33_Original ==
    \A h \in DOMAIN Listed :
        LET hashForExecution ==
                getTransactionHash(nonce, Listed[h].to, Listed[h].value, Listed[h].data)
            finalSigList == getSortedSigList(Listed[h].signatures, hashForExecution)
        IN  \A i, j \in 1..Len(finalSigList) :
                i < j => BigInt(recover(hashForExecution, finalSigList[i]))
                            < BigInt(recover(hashForExecution, finalSigList[j]))

\* C35 as stated: every proposal stored under the key of an address and a
\* chain id is stored under its hash field, and that hash is the one of its
\* nonce, to, value and data in the wallet of that address on that chain.
C35_Original ==
    \A P \in Pairs :
        \A h \in DOMAIN GetProposals(multisigData, P[1], P[2]) :
            LET p == GetProposals(multisigData, P[1], P[2])[h] IN
            /\ p.hash = h
            /\ h = hashIn(P[1], P[2], p.nonce, p.to, p.value, p.data)

----------------------------------------------------------------------------
(* Approvals in flight *)

\* the sign requests for the proposal of the request at id, under its
\* signer in any case, that the server handled before it
HandledBefore(id) ==
    {j \in Answered \ {id} :
        /\ net.sent[j].op = "sign"
        /\ KeyOf(net.sent[j].req) = KeyOf(net.sent[id].req)
        /\ net.sent[j].req.hash = net.sent[id].req.hash
        /\ toLowerCase(net.sent[j].req.signer) = toLowerCase(net.sent[id].req.signer)
        /\ HandledAt(j) < HandledAt(id)}

\* C37: of the sign requests in flight together for stored proposals, in
\* whatever order the server handles them, each one whose signer had no
\* request handled before it for the same proposal is answered 200, and
\* the approval of every request answered 200 is in the stored list of its
\* proposal from then on.
C37_NoApprovalLost ==
    \A id \in Answered :
        net.sent[id].op = "sign" =>
            /\ HandledBefore(id) = {} => AnswerTo(id).status = 200
            /\ AnswerTo(id).status = 200 =>
                  [signer |-> net.sent[id].req.signer,
                   signature |-> net.sent[id].req.signature]
                      \in Range(PendingFor(multisigData, net.sent[id].req).signatures)

C37_Witness ==
    /\ Len(net.sent) = 3 /\ Len(net.answers) = 3
    /\ net.sent[1].req.signer = owner1 /\ net.sent[1].req.hash = H1
    /\ net.sent[2].req.signer = owner2 /\ net.sent[2].req.hash = H1
    /\ net.sent[3].req.signer = owner2 /\ net.sent[3].req.hash = H2
    /\ HandledAt(3) < HandledAt(2) /\ HandledAt(2) < HandledAt(1)
    /\ \A id \in 1..3 : AnswerTo(id).status = 200
    /\ Len(Listed[H1].signatures) = 2 /\ Len(Listed[H2].signatures) = 1
    /\ Listed[H1].signatures[1].signer = owner2 /\ Listed[H1].signatures[2].signer = owner1

----------------------------------------------------------------------------
(* Executions and the nonce *)

\* C38: the executed actions carry the nonces 0, 1, 2, ... in the order of
\* their execution, so no two of them carry the same nonce, also while
\* several proposals of one nonce each hold the approvals of a quorum.
C38_OneExecutionPerNonce ==
    /\ \A i \in 1..Len(events) : events[i].nonce = i - 1
    /\ \A i, j \in 1..Len(events) : i # j => events[i].nonce # events[j].nonce
    /\ Len(events) = nonce

C38_Witness ==
    /\ nonce = 1
    /\ last.op = "execute" /\ last.result # "ok"
    /\ \E g, h \in DOMAIN Listed :
          /\ g # h
          /\ Listed[g].nonce = 0 /\ Listed[h].nonce = 0
          /\ Cardinality(ApproversOf(Listed[g])) >= signaturesRequired
          /\ Cardinality(ApproversOf(Listed[h])) >= signaturesRequired
          /\ events = <<g>>
          /\ last.hash.to = Listed[h].to

====
